---- MODULE Spec2Model ----
(***************************************************************************)
(* Model of wayland-backend-sys/src/client/log_shim.c: the trampoline      *)
(* wl_log_trampoline_to_rust_client(fmt, list), which renders a printf     *)
(* message into a 256-byte automatic buffer with vsnprintf and hands one   *)
(* C string to the sink wl_log_rust_logger_client.                         *)
(*                                                                         *)
(* Text is modelled byte by byte: a C string is a sequence of one-char     *)
(* strings, memory objects are sequences of cells, and a "const char *"    *)
(* handed to the sink is read up to the first NUL cell.                    *)
(***************************************************************************)
EXTENDS Integers, Sequences, FiniteSets, TLC

VARIABLES
    pc,      \* pc[t]: where thread t is in the trampoline
    mem,     \* mem[t]: the caller-owned memory fmt points to (NUL-terminated)
    list,    \* list[t]: the values behind the va_list
    fault,   \* fault[t]: the environment makes this vsnprintf call report an error
    ret,     \* ret[t]: the local "int ret"
    stack,   \* stack[s]: the stack frame holding "char buffer[256]" and the cell after it
    arg,     \* arg[t]: which pointer the last sink call of this invocation got
    msg,     \* msg[t]: the string the sink read through that pointer
    calls,   \* calls[t]: sink calls made by this invocation so far
    fmt0,    \* fmt0[t]: the format string as the caller passed it (history variable)
    prev     \* an earlier completed invocation: its input and what the sink got

vars == <<pc, mem, list, fault, ret, stack, arg, msg, calls, fmt0, prev>>

(***************************************************************************)
(* Sizes                                                                   *)
(***************************************************************************)
\* char buffer[256]
BufSize == 256
\* how many threads may be inside the trampoline at once
NumThreads == 2
\* how far past the buffer's capacity the rendered lengths of the inputs go
Over == 2

Threads == 1..NumThreads

NUL == "NUL"
\* the cell of the frame right after buffer[255]
CANARY == "CANARY"
\* what a read that runs off the end of an unterminated object yields
OVERRUN == "OVERRUN"

(***************************************************************************)
(* C strings                                                               *)
(***************************************************************************)
Min(a, b) == IF a <= b THEN a ELSE b

Prefix(s, n) == SubSeq(s, 1, Min(n, Len(s)))

\* the bytes of a string literal in memory: the characters, then the terminator
Bytes(s) == Append(s, NUL)

\* what a reader of a "const char *" sees: the cells before the first NUL
CStr(cells) ==
    LET nuls == {i \in DOMAIN cells : cells[i] = NUL}
    IN  IF nuls = {}
        THEN Append(cells, OVERRUN)
        ELSE SubSeq(cells, 1, (CHOOSE i \in nuls : \A j \in nuls : i <= j) - 1)

(***************************************************************************)
(* printf-style rendering                                                  *)
(***************************************************************************)
DigitChar(d) == <<"0", "1", "2", "3", "4", "5", "6", "7", "8", "9">>[d + 1]

RECURSIVE UDigits(_)
UDigits(n) == IF n < 10 THEN <<DigitChar(n)>>
              ELSE Append(UDigits(n \div 10), DigitChar(n % 10))

\* %d
Itoa(n) == IF n < 0 THEN <<"-">> \o UDigits(-n) ELSE UDigits(n)

IntArg(n) == [k |-> "d", i |-> n, s |-> <<>>]
StrArg(s) == [k |-> "s", i |-> 0, s |-> s]

\* the first cell of m at or after i that holds "%" or the terminator, or 0
NextStop(m, i) ==
    LET at == {k \in i..Len(m) : m[k] \in {"%", NUL}}
    IN  IF at = {} THEN 0 ELSE CHOOSE k \in at : \A n \in at : k <= n

\* The format is read from memory cell by cell up to its terminator: ordinary
\* characters are copied up to the next directive; the conversions the model
\* knows are %d, %s and %%; a directive it does not know, or a "%" that ends
\* the format, is copied as it stands.
RECURSIVE RenderFrom(_, _, _, _)
RenderFrom(m, i, a, j) ==
    LET p == NextStop(m, i)
    IN  IF p = 0 THEN Append(SubSeq(m, i, Len(m)), OVERRUN)
        ELSE IF m[p] = NUL THEN SubSeq(m, i, p - 1)
        ELSE SubSeq(m, i, p - 1) \o
             (IF m[p + 1] = NUL THEN <<"%">>
              ELSE IF m[p + 1] = "d"
                   THEN Itoa(a[j].i) \o RenderFrom(m, p + 2, a, j + 1)
              ELSE IF m[p + 1] = "s"
                   THEN a[j].s \o RenderFrom(m, p + 2, a, j + 1)
              ELSE IF m[p + 1] = "%"
                   THEN <<"%">> \o RenderFrom(m, p + 2, a, j)
              ELSE <<"%", m[p + 1]>> \o RenderFrom(m, p + 2, a, j))

\* the fully substituted result of the format string at m with its arguments
Render(m, a) == RenderFrom(m, 1, a, 1)

(***************************************************************************)
(* vsnprintf(buffer, size, fmt, list)                                      *)
(*                                                                         *)
(* On success it returns the length the full result has, stores at most    *)
(* size-1 of its characters and always a terminator after them, and leaves *)
(* the cells behind the terminator as they were.  On an error it returns a *)
(* negative value and the destination is indeterminate: untouched, or      *)
(* partly written and unterminated.                                        *)
(***************************************************************************)
\* cells with the first n characters of out stored from the first cell on,
\* and a terminator after them if asked for
Store(cells, out, n, terminate) ==
    IF terminate
    THEN SubSeq(out, 1, n) \o <<NUL>> \o SubSeq(cells, n + 2, Len(cells))
    ELSE SubSeq(out, 1, n) \o SubSeq(cells, n + 1, Len(cells))

Vsnprintf(cells, size, m, a, bad, junk) ==
    LET out == Render(m, a)
        n   == Min(Len(out), size - 1)
    IN  IF bad
        THEN [ret |-> -1,
              cells |-> IF junk THEN Store(cells, out, n, FALSE) ELSE cells]
        ELSE [ret |-> Len(out), cells |-> Store(cells, out, n, TRUE)]

(***************************************************************************)
(* The trampoline's own choices                                            *)
(***************************************************************************)
\* a size argument one larger than the array
SizeArgOff == BufSize + 1

\* a size argument one smaller than the array
SizeArgShort == BufSize - 1

\* the size passed to vsnprintf
SizeArg == BufSize

\* one buffer for all invocations, as a "static char buffer[256]" would be
BufSlotStatic(t) == 1

\* buffer is an automatic variable: every invocation has its own, in its
\* thread's stack
BufSlot(t) == t

\* a test that takes a truncated rendering for a failed one
SinkCallsTrunc(r) == IF r <= 0 \/ r >= BufSize THEN <<"fmt">> ELSE <<"buffer">>

\* a test "ret < 0"
SinkCallsNeg(r) == IF r < 0 THEN <<"fmt">> ELSE <<"buffer">>

\* the fallback branch forwards the buffer too
SinkCallsBuffer(r) == IF r <= 0 THEN <<"buffer">> ELSE <<"buffer">>

\* no fallback branch: a failed rendering is dropped
SinkCallsDrop(r) == IF r <= 0 THEN <<>> ELSE <<"buffer">>

\* the pointers the if/else hands to wl_log_rust_logger_client, in order
SinkCalls(r) == IF r <= 0 THEN <<"fmt">> ELSE <<"buffer">>

\* the object a pointer of thread t designates
Deref(t, p) == IF p = "fmt" THEN mem[t] ELSE stack[BufSlot(t)]

(***************************************************************************)
(* Inputs                                                                  *)
(***************************************************************************)
\* a text of n characters whose i-th character tells its position
Pad(n) == [i \in 1..n |-> DigitChar(i % 10)]

Lens == {0, 1} \cup ((BufSize - 2)..(BufSize - 1 + Over))

FmtValue == <<"v", "a", "l", "u", "e", "=", "%", "d">>
FmtNoArgs == <<"n", "o", " ", "a", "r", "g", "s", " ", "h", "e", "r", "e">>
FmtStr == <<"%", "s">>

Inputs ==
    {[fmt |-> FmtValue, list |-> <<IntArg(42)>>],
     [fmt |-> FmtNoArgs, list |-> <<>>],
     [fmt |-> <<"%", "d", "%", "%">>, list |-> <<IntArg(-7)>>],
     [fmt |-> <<"5", "0", "%">>, list |-> <<>>]}
    \cup {[fmt |-> Pad(n), list |-> <<>>] : n \in Lens}
    \cup {[fmt |-> FmtStr, list |-> <<StrArg(Pad(n))>>] : n \in Lens}
    \cup {[fmt |-> <<"a", "%", "s">>, list |-> <<StrArg(Pad(n))>>] : n \in Lens}

\* the inputs of the concurrent runs
ConcInputs ==
    {[fmt |-> FmtValue, list |-> <<IntArg(42)>>],
     [fmt |-> FmtStr, list |-> <<StrArg(Pad(BufSize - 1 + Over))>>]}

\* no invocation has completed yet
None == [fmt |-> <<OVERRUN>>, list |-> <<>>, fault |-> FALSE, msg |-> <<>>]

\* a frame whose buffer cells all hold g, and the cell behind the buffer
Fresh(g) == [i \in 1..(BufSize + 1) |-> IF i <= BufSize THEN g ELSE CANARY]

\* a frame outside any invocation
Dead == Fresh("?")

\* what the uninitialised buffer may hold on entry: bytes that are no string,
\* zeroes, or what an earlier invocation left in the frame
Garbage ==
    {Dead, Fresh(NUL),
     Store(Dead, prev.msg, Min(Len(prev.msg), BufSize - 1), TRUE)}

(***************************************************************************)
(* The state machine                                                       *)
(***************************************************************************)
Init ==
    /\ pc = [t \in Threads |-> "idle"]
    /\ mem = [t \in Threads |-> <<NUL>>]
    /\ list = [t \in Threads |-> <<>>]
    /\ fault = [t \in Threads |-> FALSE]
    /\ ret = [t \in Threads |-> 0]
    /\ stack = [t \in Threads |-> Dead]
    /\ arg = [t \in Threads |-> "none"]
    /\ msg = [t \in Threads |-> <<>>]
    /\ calls = [t \in Threads |-> 0]
    /\ fmt0 = [t \in Threads |-> <<>>]
    /\ prev = None

\* the native library calls the hook: fmt and list are bound, buffer is
\* uninitialised (it holds whatever the frame holds, g)
Call(t, in, bad, g) ==
    /\ pc[t] = "idle"
    /\ pc' = [pc EXCEPT ![t] = "entered"]
    /\ mem' = [mem EXCEPT ![t] = Bytes(in.fmt)]
    /\ list' = [list EXCEPT ![t] = in.list]
    /\ fault' = [fault EXCEPT ![t] = bad]
    /\ fmt0' = [fmt0 EXCEPT ![t] = in.fmt]
    /\ stack' = [stack EXCEPT ![BufSlot(t)] = g]
    /\ UNCHANGED <<ret, arg, msg, calls, prev>>

\* int ret = vsnprintf(buffer, 256, fmt, list);
Format(t) ==
    /\ pc[t] = "entered"
    /\ \E junk \in BOOLEAN :
          LET r == Vsnprintf(stack[BufSlot(t)], SizeArg, mem[t], list[t],
                             fault[t], junk)
          IN  /\ ret' = [ret EXCEPT ![t] = r.ret]
              /\ stack' = [stack EXCEPT ![BufSlot(t)] = r.cells]
    /\ pc' = [pc EXCEPT ![t] = "formatted"]
    /\ UNCHANGED <<mem, list, fault, arg, msg, calls, fmt0, prev>>

\* a trampoline that gives up on a failed rendering instead of falling back
SinkAbort(t) ==
    /\ pc[t] = "formatted"
    /\ calls' = [calls EXCEPT ![t] = IF ret[t] <= 0 THEN @ ELSE @ + 1]
    /\ arg' = [arg EXCEPT ![t] = IF ret[t] <= 0 THEN @ ELSE "buffer"]
    /\ msg' = [msg EXCEPT ![t] = IF ret[t] <= 0 THEN @ ELSE CStr(stack[t])]
    /\ pc' = [pc EXCEPT ![t] = IF ret[t] <= 0 THEN "aborted" ELSE "sunk"]
    /\ UNCHANGED <<mem, list, fault, ret, stack, fmt0, prev>>

\* if (ret <= 0) wl_log_rust_logger_client(fmt);
\* else          wl_log_rust_logger_client(buffer);
Sink(t) ==
    /\ pc[t] = "formatted"
    /\ LET ptrs == SinkCalls(ret[t])
       IN  /\ calls' = [calls EXCEPT ![t] = @ + Len(ptrs)]
           /\ IF ptrs = <<>>
              THEN UNCHANGED <<arg, msg>>
              ELSE /\ arg' = [arg EXCEPT ![t] = ptrs[Len(ptrs)]]
                   /\ msg' = [msg EXCEPT ![t] = CStr(Deref(t, ptrs[Len(ptrs)]))]
    /\ pc' = [pc EXCEPT ![t] = "sunk"]
    /\ UNCHANGED <<mem, list, fault, ret, stack, fmt0, prev>>

\* the closing brace: the locals and the frame die, the caller's format string
\* lives on; keep says whether this invocation becomes the remembered earlier one
Return(t, keep) ==
    /\ pc[t] = "sunk"
    /\ pc' = [pc EXCEPT ![t] = "idle"]
    /\ list' = [list EXCEPT ![t] = <<>>]
    /\ fault' = [fault EXCEPT ![t] = FALSE]
    /\ ret' = [ret EXCEPT ![t] = 0]
    /\ arg' = [arg EXCEPT ![t] = "none"]
    /\ msg' = [msg EXCEPT ![t] = <<>>]
    /\ calls' = [calls EXCEPT ![t] = 0]
    /\ UNCHANGED <<mem, fmt0>>
    /\ prev' = IF keep
               THEN [fmt |-> fmt0[t], list |-> list[t], fault |-> fault[t],
                     msg |-> msg[t]]
               ELSE prev
    /\ stack' = [stack EXCEPT ![BufSlot(t)] = Dead]

\* one caller thread, every input, one invocation after another
Next ==
    \/ \E in \in Inputs, bad \in BOOLEAN, g \in Garbage : Call(1, in, bad, g)
    \/ Format(1)
    \/ Sink(1)
    \/ \E keep \in BOOLEAN : Return(1, keep)

Spec == Init /\ [][Next]_vars

\* several caller threads inside the trampoline at once
NextConc ==
    \/ \E t \in Threads, in \in ConcInputs, bad \in BOOLEAN, g \in Garbage :
          Call(t, in, bad, g)
    \/ \E t \in Threads : Format(t)
    \/ \E t \in Threads : Sink(t)
    \/ \E t \in Threads : Return(t, FALSE)

SpecConc == Init /\ [][NextConc]_vars

\* the steps of an invocation in progress
Run(t) == Format(t) \/ Sink(t) \/ \E keep \in BOOLEAN : Return(t, keep)

\* the caller's thread keeps being scheduled, and the sink returns
SpecFair == Spec /\ WF_vars(Run(1))

(***************************************************************************)
(* Properties                                                              *)
(***************************************************************************)
\* the fully substituted result of thread t's invocation
Result(t) == Render(Bytes(fmt0[t]), list[t])

\* the longest text the buffer holds besides its terminator
Cap == BufSize - 1

\* the invocation of t has made its sink call and not yet returned
Sunk(t) == pc[t] = "sunk"

NoSpecifiers(f) == \A i \in DOMAIN f : f[i] # "%"

\* the invocation of t repeats the remembered earlier one
SameAsPrev(t) ==
    /\ prev.fmt = fmt0[t]
    /\ prev.list = list[t]
    /\ prev.fault = fault[t]

\* C1: whenever the formatter succeeds and the fully substituted result has at
\* most 255 characters (the empty result included), the one string the sink
\* gets is exactly that result.
C1_SubstitutedDelivered ==
    \A t \in Threads :
        (Sunk(t) /\ ~fault[t] /\ Len(Result(t)) <= Cap)
            => (calls[t] = 1 /\ msg[t] = Result(t))

\* C2, as claimed: a format string without conversion specifiers, called with
\* no arguments, reaches the sink verbatim whatever its length.
C2_VerbatimAnyLength ==
    \A t \in Threads :
        (Sunk(t) /\ NoSpecifiers(fmt0[t]) /\ list[t] = <<>>)
            => msg[t] = fmt0[t]

\* C2, amended: a format string without conversion specifiers and of at most
\* 255 characters (the empty one included), called with no arguments, reaches
\* the sink verbatim.
C2_VerbatimUpToCap ==
    \A t \in Threads :
        (Sunk(t) /\ NoSpecifiers(fmt0[t]) /\ list[t] = <<>> /\ Len(fmt0[t]) <= Cap)
            => msg[t] = fmt0[t]

C2_Witness ==
    \E t \in Threads :
        /\ Sunk(t) /\ ~fault[t] /\ arg[t] = "buffer"
        /\ NoSpecifiers(fmt0[t]) /\ list[t] = <<>>
        /\ Len(fmt0[t]) = Cap
        /\ msg[t] = fmt0[t]

\* C3: when the formatter succeeds and the substituted result is longer than
\* 255 characters, ret is positive, the success branch is taken, the buffer is
\* terminated in its last cell, and the sink gets exactly the first 255
\* characters of the result, through the buffer and not through fmt.
C3_TruncatedPrefix ==
    \A t \in Threads :
        (pc[t] \in {"formatted", "sunk"} /\ ~fault[t] /\ Len(Result(t)) > Cap)
            => /\ ret[t] > 0
               /\ stack[BufSlot(t)][BufSize] = NUL
               /\ Sunk(t) => /\ arg[t] = "buffer"
                             /\ calls[t] = 1
                             /\ Len(msg[t]) = Cap
                             /\ msg[t] = SubSeq(Result(t), 1, Cap)

C3_Witness ==
    \E t \in Threads :
        /\ Sunk(t) /\ ~fault[t] /\ arg[t] = "buffer"
        /\ Len(Result(t)) = BufSize
        /\ list[t] # <<>>
        /\ msg[t] = SubSeq(Result(t), 1, Cap)

\* C4: whenever vsnprintf returns a non-positive value, the sink gets the
\* caller's format string, in full, through fmt, and the buffer is not
\* forwarded in that invocation.
C4_FallbackForwardsFmt ==
    \A t \in Threads :
        (Sunk(t) /\ ret[t] <= 0)
            => (arg[t] = "fmt" /\ calls[t] = 1 /\ msg[t] = fmt0[t])

C4_Witness ==
    \E t \in Threads :
        /\ Sunk(t) /\ ret[t] < 0
        /\ Len(fmt0[t]) > BufSize
        /\ CStr(stack[BufSlot(t)]) # fmt0[t]
        /\ msg[t] = fmt0[t]

\* C5: an invocation has called the sink zero times up to and including the
\* formatting step, exactly once from its sink step on, and it returns only
\* with exactly one sink call made.
C5_ExactlyOnce ==
    /\ [](\A t \in Threads :
            /\ pc[t] \in {"entered", "formatted"} => calls[t] = 0
            /\ Sunk(t) => calls[t] = 1)
    /\ [][\A t \in Threads :
            (pc[t] # "idle" /\ pc'[t] = "idle") => calls[t] = 1]_vars

C5_Witness ==
    \E t \in Threads :
        Sunk(t) /\ fault[t] /\ calls[t] = 1 /\ Len(Result(t)) > Cap

\* what the invocation of t is to deliver, from its own fmt, arguments and
\* formatter outcome
Own(t) ==
    IF fault[t] \/ Result(t) = <<>> THEN fmt0[t] ELSE Prefix(Result(t), Cap)

\* C6: with several threads inside the trampoline, the buffer of an invocation
\* that has rendered holds that invocation's own rendering until its sink call,
\* and each sink call gets the message of its own invocation.
C6_OwnMessage ==
    \A t \in Threads :
        /\ (pc[t] = "formatted" /\ ret[t] > 0)
              => CStr(stack[BufSlot(t)]) = Prefix(Result(t), Cap)
        /\ Sunk(t) => msg[t] = Own(t)

C6_Witness ==
    \E t, u \in Threads :
        /\ t # u
        /\ pc[t] = "formatted" /\ ret[t] > 0
        /\ Sunk(u) /\ arg[u] = "buffer"
        /\ fmt0[t] # fmt0[u]

\* C7: whatever the input and the formatter's outcome, an invocation is only
\* ever at one of the trampoline's own steps, and once entered it returns.
C7_AlwaysReturns ==
    /\ [](pc[1] \in {"idle", "entered", "formatted", "sunk"})
    /\ (pc[1] = "entered") ~> (pc[1] = "idle")

C7_Witness ==
    /\ pc[1] = "idle"
    /\ prev.fault
    /\ prev.msg = prev.fmt

\* C8: the raw format string is forwarded only when formatting failed: a
\* non-positive ret means a formatting error, and a rendering that succeeded,
\* of any length, is forwarded through the buffer.
C8_FallbackOnlyOnFailure ==
    \A t \in Threads :
        /\ (Sunk(t) /\ ret[t] <= 0) => fault[t]
        /\ (Sunk(t) /\ ~fault[t]) => arg[t] = "buffer"

\* C9: an invocation with the same fmt, arguments and formatter outcome as an
\* earlier one delivers the same string, whatever the earlier invocations left
\* in the frame.
C9_Stateless ==
    \A t \in Threads :
        (Sunk(t) /\ SameAsPrev(t)) => msg[t] = prev.msg

C9_Witness ==
    \E t \in Threads :
        /\ Sunk(t) /\ SameAsPrev(t)
        /\ fault[t]
        /\ CStr(stack[BufSlot(t)]) = Prefix(prev.msg, Cap)
        /\ msg[t] = prev.msg

\* C10: the caller's format string is the same during and after an invocation
\* as when it was passed in, the trampoline's writes stay inside the 256 cells
\* of its buffer, and what the fallback path forwards is the caller's fmt.
C10_FmtUntouched ==
    \A t \in Threads :
        /\ mem[t] = Bytes(fmt0[t])
        /\ Len(stack[BufSlot(t)]) = BufSize + 1
        /\ stack[BufSlot(t)][BufSize + 1] = CANARY
        /\ (Sunk(t) /\ arg[t] = "fmt") => msg[t] = fmt0[t]

C10_Witness ==
    \E t \in Threads :
        /\ pc[t] = "idle"
        /\ Len(fmt0[t]) > BufSize
        /\ mem[t] = Bytes(fmt0[t])
        /\ prev.fmt = fmt0[t] /\ ~prev.fault

====
